---- MODULE Spec2Model ----
(***************************************************************************)
(* Model of the Gemini weather/time assistant: the session loop (main),    *)
(* the turn loop (call_loop), one model round trip (make_call) with its    *)
(* bounded concurrent tool dispatch (buffer_unordered(3)), and the tool    *)
(* executor (make_tool_call).                                              *)
(*                                                                         *)
(* Strings read from the terminal or returned by the model as text are     *)
(* sequences of one-character strings, so that trim() and                  *)
(* trim_start_matches('>') are computed.  Error messages are sequences of  *)
(* words.                                                                  *)
(***************************************************************************)
EXTENDS Integers, Sequences, FiniteSets, TLC

VARIABLES
    pc,          \* position of the main task
    buffer,      \* main: the line buffer `buffer`
    messages,    \* chat_req.messages, the transcript
    response,    \* make_call: what exec_chat returned, Idle while there is none
    pending,     \* make_call: tool calls stream::iter has not yet handed out
    inflight,    \* make_call: futures held by buffer_unordered
    executions,  \* make_call: completed executions of the latest round, in completion order
    env,         \* names of the environment variables that are set
    exitErr,     \* the AppError main returned with, "none" otherwise
    modelCalls,  \* number of exec_chat calls issued so far
    reads,       \* number of read_line calls made so far
    firstRun,    \* replay only: the round as an earlier run of the same inputs left it
    system,      \* chat_req.system, the system prompt
    tools        \* chat_req.tools, the tool declarations

vars == <<pc, buffer, messages, response, pending, inflight, executions, env,
          exitErr, modelCalls, reads, firstRun, system, tools>>

-----------------------------------------------------------------------------
(* Bounds *)

MaxCalls == 4        \* tool calls the model issues in one session
MaxModelCalls == 2   \* model calls in one session
MaxReads == 2        \* lines read in one session

-----------------------------------------------------------------------------
(* Strings *)

WhiteSpace == {" ", "\n", "\t"}

ExitToken == <<"e", "x", "i", "t">>

RECURSIVE TrimStart(_)
TrimStart(s) ==
    IF s # <<>> /\ Head(s) \in WhiteSpace THEN TrimStart(Tail(s)) ELSE s

RECURSIVE TrimEnd(_)
TrimEnd(s) ==
    IF s # <<>> /\ s[Len(s)] \in WhiteSpace
    THEN TrimEnd(SubSeq(s, 1, Len(s) - 1))
    ELSE s

\* str::trim
Trim(s) == TrimEnd(TrimStart(s))

\* str::trim_start_matches('>')
RECURSIVE TrimStartMatchesGt(_)
TrimStartMatchesGt(s) ==
    IF s # <<>> /\ Head(s) = ">" THEN TrimStartMatchesGt(Tail(s)) ELSE s

\* the request taken without the final trim()
UserRequest_M(buf) == TrimStartMatchesGt(buf)

\* main: `buffer.trim_start_matches('>').trim()`
UserRequest(buf) == Trim(TrimStartMatchesGt(buf))

\* the loop condition comparing the untrimmed buffer
ExitRequested_M(buf) == buf = ExitToken

\* main: the loop condition `buffer.trim() != "exit"`, negated
ExitRequested(buf) == Trim(buf) = ExitToken

\* The lines stdin may deliver; <<>> is end of input (read_line appends nothing).
Lines ==
    { <<>>,
      <<"\n">>,
      <<" ", "\n">>,
      <<">", " ", "\n">>,
      <<"e", "x", "i", "t", "\n">>,
      <<" ", "e", "x", "i", "t", " ", "\n">>,
      <<">", "e", "x", "i", "t", "\n">>,
      <<"E", "x", "i", "t", "\n">> }

\* The texts the model may answer with.
ModelTexts ==
    { <<" ", "e", "x", "i", "t", "\n">>,
      <<"E", "x", "i", "t">> }

-----------------------------------------------------------------------------
(* JSON values and tool calls *)

Absent == [t |-> "absent", v |-> ""]
Str(s) == [t |-> "string", v |-> s]
Num(s) == [t |-> "number", v |-> s]

ParamNames == {"city", "country", "unit"}

\* a JSON object holding the given members
Obj(f) == [t |-> "object", fields |-> f]

\* serde_json::Value::as_object(..).is_some()
AsObject(j) == j.t = "object"

\* serde_json::Map::get, None being Absent
Get(args, k) == IF k \in DOMAIN args.fields THEN args.fields[k] ELSE Absent

\* `.and_then(|v| v.as_str())` is Some
HasStr(args, k) == Get(args, k).t = "string"

ToolCall(id, name, args) == [call_id |-> id, fn_name |-> name, fn_arguments |-> args]

\* the tools `make_tool_call` matches on
WeatherTool == "get_weather"
TimeTool == "get_current_time"
RegisteredTools == {WeatherTool, TimeTool}

\* line 84: the system prompt given to with_system, word by word (the
\* quotes around exit are left out)
SystemPrompt ==
    <<"Answer", "with", "one", "sentence", "or", "tool", "call.",
      "Send", "exit", "to", "stop.">>

\* lines 41-79 and 85: the declarations given to with_tools, each with its
\* name and the `required` list of its schema
ToolDeclarations ==
    <<[name |-> WeatherTool, required |-> <<"city", "country", "unit">>],
      [name |-> TimeTool, required |-> <<"city", "country">>]>>

WeatherKey == "WEATHER_API_KEY"
GeoKey == "IP_GEOLOCATION_API_KEY"

-----------------------------------------------------------------------------
(* AppError and its Display *)

AppError(variant, arg) == [variant |-> variant, arg |-> arg]

ErrorPrefix(variant) ==
    CASE variant = "MissingParameter" -> <<"Missing", "parameter:">>
      [] variant = "UnsupportedToolCall" -> <<"Tool", "call", "function", "not", "implemented:">>
      [] variant = "ApiRequestFailed" -> <<"API", "request", "failed:">>
      [] variant = "EnvVarNotSet" -> <<"Environment", "variable", "not", "set:">>
      [] variant = "ResponseParseError" -> <<"Failed", "to", "parse", "API", "response:">>
      [] variant = "RequestError" -> <<"HTTP", "request", "error:">>
      [] variant = "IoError" -> <<"I/O", "error:">>

\* e.to_string()
ErrToString(e) == ErrorPrefix(e.variant) \o e.arg

Ok(v) == [ok |-> TRUE, val |-> v]
Err(e) == [ok |-> FALSE, err |-> e]

-----------------------------------------------------------------------------
(* The providers *)

\* what the HTTP exchange with a provider can come to
ProviderStatuses == {"transport", "status", "malformed", "ok"}

WeatherBody == [temp_c |-> 20, temp_f |-> 68, condition |-> "Cloudy", humidity |-> 70]
TimeBody == [date |-> "2025-05-01", time_12 |-> "08:30 PM"]

\* weather::get_weather, given how the HTTP exchange went
get_weather(st) ==
    CASE st = "transport" -> Err(AppError("RequestError", <<"error", "sending", "request">>))
      [] st = "malformed" -> Err(AppError("RequestError", <<"error", "decoding", "response", "body">>))
      [] st = "status" -> Err(AppError("ApiRequestFailed",
                                <<"Failed", "to", "fetch", "weather", "data:", "500">>))
      [] st = "ok" -> Ok(WeatherBody)

\* geo_location::get_time, given how the HTTP exchange went
get_time(st) ==
    CASE st = "transport" -> Err(AppError("RequestError", <<"error", "sending", "request">>))
      [] st = "malformed" -> Err(AppError("RequestError", <<"error", "decoding", "response", "body">>))
      [] st = "status" -> Err(AppError("ApiRequestFailed",
                                <<"Failed", "to", "fetch", "time", "data:", "500">>))
      [] st = "ok" -> Ok(TimeBody)

-----------------------------------------------------------------------------
(* make_tool_call *)

ToolResponse(id, content) == [call_id |-> id, content |-> content]

\* the last lacking parameter reported instead of the first
FirstMissing_M(args, names) ==
    IF \A i \in 1..Len(names) : HasStr(args, names[i])
    THEN ""
    ELSE names[CHOOSE i \in 1..Len(names) :
                   /\ ~HasStr(args, names[i])
                   /\ \A j \in (i + 1)..Len(names) : HasStr(args, names[j])]

\* The first required parameter, in the order the arm extracts them, that is
\* absent or not a string; "" when there is none.
FirstMissing(args, names) ==
    IF \A i \in 1..Len(names) : HasStr(args, names[i])
    THEN ""
    ELSE names[CHOOSE i \in 1..Len(names) :
                   /\ ~HasStr(args, names[i])
                   /\ \A j \in 1..(i - 1) : HasStr(args, names[j])]

\* a label for `unit` that leaves the parameter's name out
MissingLabel_M(name) == IF name = "unit" THEN <<"temperature">> ELSE <<name>>

\* the word(s) the arm puts in MissingParameter for a parameter
MissingLabel(name) == IF name = "unit" THEN <<"temperature", "unit">> ELSE <<name>>

\* the weather arm going on with an empty key when the variable is not set
WeatherArm_M(tc, e) ==
    LET m == FirstMissing(tc.fn_arguments, <<"city", "country", "unit">>) IN
    IF m # "" THEN Err(AppError("MissingParameter", MissingLabel(m)))
    ELSE Ok("weather")

\* the `get_weather` arm up to the provider call (lines 196-218)
WeatherArm(tc, e) ==
    LET m == FirstMissing(tc.fn_arguments, <<"city", "country", "unit">>) IN
    IF m # "" THEN Err(AppError("MissingParameter", MissingLabel(m)))
    ELSE IF WeatherKey \notin e THEN Err(AppError("EnvVarNotSet", <<WeatherKey>>))
    ELSE Ok("weather")

\* the `get_current_time` arm up to the provider call (lines 240-258)
TimeArm(tc, e) ==
    LET m == FirstMissing(tc.fn_arguments, <<"city", "country">>) IN
    IF m # "" THEN Err(AppError("MissingParameter", MissingLabel(m)))
    ELSE IF GeoKey \notin e THEN Err(AppError("EnvVarNotSet", <<GeoKey>>))
    ELSE Ok("geo")

\* an unknown tool name falling into the weather lookup
UnsupportedArm_M(tc) == Ok("weather")

\* the `_` arm (lines 270-271)
UnsupportedArm(tc) == Err(AppError("UnsupportedToolCall", <<tc.fn_name>>))

\* The part of the inner async block that runs before the provider is
\* called: Ok(provider) when the call goes out, Err(e) when it returns early.
\* The arguments are looked at before the tool name is.
BeforeProvider(tc, e) ==
    IF ~AsObject(tc.fn_arguments)
    THEN Err(AppError("ResponseParseError",
                      <<"Invalid", "tool", "call", "arguments", "format">>))
    ELSE CASE tc.fn_name = WeatherTool -> WeatherArm(tc, e)
           [] tc.fn_name = TimeTool -> TimeArm(tc, e)
           [] OTHER -> UnsupportedArm(tc)

\* the unit arms swapped: Fahrenheit answered for "C" and Celsius for "F"
AfterProvider_M(tc, st) ==
    IF tc.fn_name = WeatherTool
    THEN LET r == get_weather(st) IN
         IF ~r.ok THEN r
         ELSE LET unit == Get(tc.fn_arguments, "unit").v
                  temperature == CASE unit = "C" -> r.val.temp_f
                                   [] unit = "F" -> r.val.temp_c
                                   [] OTHER -> r.val.temp_c
              IN Ok(ToolResponse(tc.call_id,
                                 [temperature |-> temperature,
                                  condition |-> r.val.condition,
                                  humidity |-> r.val.humidity]))
    ELSE LET r == get_time(st) IN
         IF ~r.ok THEN r
         ELSE Ok(ToolResponse(tc.call_id,
                              [time |-> <<r.val.date, r.val.time_12>>]))

\* The part of the inner async block that runs once the provider has
\* answered: the Result the block evaluates to.
AfterProvider(tc, st) ==
    IF tc.fn_name = WeatherTool
    THEN LET r == get_weather(st) IN
         IF ~r.ok THEN r
         ELSE LET unit == Get(tc.fn_arguments, "unit").v
                  temperature == CASE unit = "C" -> r.val.temp_c
                                   [] unit = "F" -> r.val.temp_f
                                   [] OTHER -> r.val.temp_c
              IN Ok(ToolResponse(tc.call_id,
                                 [temperature |-> temperature,
                                  condition |-> r.val.condition,
                                  humidity |-> r.val.humidity]))
    ELSE LET r == get_time(st) IN
         IF ~r.ok THEN r
         ELSE Ok(ToolResponse(tc.call_id,
                              [time |-> <<r.val.date, r.val.time_12>>]))

\* the error branch answering under a fixed id instead of the call's
ToolResponseOf_M(tc, result) ==
    IF result.ok
    THEN result.val
    ELSE ToolResponse("error", [error |-> ErrToString(result.err)])

\* `match tool_response`: the ToolResponse make_tool_call returns
ToolResponseOf(tc, result) ==
    IF result.ok
    THEN result.val
    ELSE ToolResponse(tc.call_id, [error |-> ErrToString(result.err)])

-----------------------------------------------------------------------------
(* Messages and model replies *)

UserMessage(text) == [role |-> "user", kind |-> "Text", text |-> text]
AssistantText(text) == [role |-> "assistant", kind |-> "Text", text |-> text]
AssistantToolCalls(calls) == [role |-> "assistant", kind |-> "ToolCalls", calls |-> calls]
\* `impl From<ToolResponse> for ChatMessage`: one message per response
ToolMessage(tr) == [role |-> "tool", kind |-> "ToolResponses", responses |-> <<tr>>]

Last(s) == s[Len(s)]

SeattleUS == [k \in {"city", "country"} |-> IF k = "city" THEN Str("Seattle") ELSE Str("US")]

WithUnit(u) == [k \in ParamNames |-> IF k = "unit" THEN u ELSE SeattleUS[k]]

\* The i-th tool call of a model reply: two weather calls and a time call
\* first, so that three provider calls can be open while a fourth call waits;
\* then a tool that does not exist, then calls that lack a parameter.
ReplyCall(i) ==
    LET id == ToString(i) IN
    CASE i = 1 -> ToolCall(id, WeatherTool, Obj(WithUnit(Str("F"))))
      [] i = 2 -> ToolCall(id, TimeTool, Obj(SeattleUS))
      [] i = 3 -> ToolCall(id, WeatherTool, Obj(WithUnit(Str("C"))))
      [] i = 4 -> ToolCall(id, "get_news", Obj(SeattleUS))
      [] OTHER -> ToolCall(id, WeatherTool, Obj(SeattleUS))

\* number of tool calls the model has issued in this session
RECURSIVE CallsIssued(_)
CallsIssued(ms) ==
    IF ms = <<>> THEN 0
    ELSE (IF Head(ms).kind = "ToolCalls" THEN Len(Head(ms).calls) ELSE 0)
         + CallsIssued(Tail(ms))

Idle == [tag |-> "idle"]

\* no earlier run is being compared with
NoRun == [messages |-> <<>>, executions |-> <<>>]

\* what `client.exec_chat(..).await` may come to
ModelReplies(budget) ==
    {[tag |-> "Err"], [tag |-> "None"], [tag |-> "Parts"]}
    \cup {[tag |-> "Text", text |-> t] : t \in ModelTexts}
    \cup {[tag |-> "ToolCalls", calls |-> [i \in 1..n |-> ReplyCall(i)]] : n \in 0..budget}

-----------------------------------------------------------------------------
(* main *)

Init ==
    /\ pc = "start"
    /\ buffer = <<>>
    /\ messages = <<>>
    /\ response = Idle
    /\ pending = <<>>
    /\ inflight = {}
    /\ executions = <<>>
    /\ env \in SUBSET {WeatherKey, GeoKey}
    /\ exitErr = "none"
    /\ modelCalls = 0
    /\ reads = 0
    /\ firstRun = NoRun
    /\ system = SystemPrompt
    /\ tools = ToolDeclarations

\* lines 94-97: the first prompt and read_line
ReadFirst ==
    /\ pc = "start"
    /\ reads < MaxReads
    /\ \E line \in Lines : buffer' = buffer \o line
    /\ reads' = reads + 1
    /\ pc' = "while_test"
    /\ UNCHANGED <<messages, response, pending, inflight, executions, env, firstRun, system, tools, exitErr, modelCalls>>

\* lines 133-137: clear the buffer, prompt and read the next line
ReadNext ==
    /\ pc = "prompt"
    /\ reads < MaxReads
    /\ \E line \in Lines : buffer' = <<>> \o line
    /\ reads' = reads + 1
    /\ pc' = "while_test"
    /\ UNCHANGED <<messages, response, pending, inflight, executions, env, firstRun, system, tools, exitErr, modelCalls>>

\* `?` on flush or read_line: main returns the I/O error
ReadFail ==
    /\ pc \in {"start", "prompt"}
    /\ reads < MaxReads
    /\ reads' = reads + 1
    /\ buffer' = <<>>
    /\ exitErr' = "IoError"
    /\ pc' = "failed"
    /\ UNCHANGED <<messages, response, pending, inflight, executions, env, firstRun, system, tools, modelCalls>>

\* line 99: the loop condition; on `exit` main returns Ok(())
WhileTest ==
    /\ pc = "while_test"
    /\ pc' = IF ExitRequested(buffer) THEN "exited" ELSE "body"
    /\ UNCHANGED <<buffer, messages, response, pending, inflight, executions, env, firstRun, system, tools,
                   exitErr, modelCalls, reads>>

\* lines 100-105: an empty request goes back to the loop condition
SkipBlank ==
    /\ pc = "body"
    /\ UserRequest(buffer) = <<>>
    /\ pc' = "while_test"
    /\ UNCHANGED <<buffer, messages, response, pending, inflight, executions, env, firstRun, system, tools,
                   exitErr, modelCalls, reads>>

\* lines 107-118: append the user message and enter call_loop
SubmitUser ==
    /\ pc = "body"
    /\ UserRequest(buffer) # <<>>
    /\ messages' = Append(messages, UserMessage(UserRequest(buffer)))
    /\ pc' = "make_call"
    /\ UNCHANGED <<buffer, response, pending, inflight, executions, env, firstRun, system, tools, exitErr,
                   modelCalls, reads>>

\* breaking out on any final text
ModelSaidExit_M(ms) == ms # <<>> /\ Last(ms).kind = "Text"

\* lines 122-131: a final text equal to `exit` breaks out of the loop
ModelSaidExit(ms) ==
    /\ ms # <<>>
    /\ Last(ms).kind = "Text"
    /\ Last(ms).text = ExitToken

CheckLast ==
    /\ pc = "check_last"
    /\ pc' = IF ModelSaidExit(messages) THEN "exited" ELSE "prompt"
    /\ UNCHANGED <<buffer, messages, response, pending, inflight, executions, env, firstRun, system, tools,
                   exitErr, modelCalls, reads>>

-----------------------------------------------------------------------------
(* make_call: the model round trip *)

\* lines 302-303: exec_chat is issued with a clone of the conversation
SendRequest ==
    /\ pc = "make_call"
    /\ modelCalls < MaxModelCalls
    /\ modelCalls' = modelCalls + 1
    /\ pc' = "awaiting"
    /\ UNCHANGED <<buffer, messages, response, pending, inflight, executions, env, firstRun, system, tools,
                   exitErr, reads>>

\* line 303: exec_chat returns
ReceiveReply ==
    /\ pc = "awaiting"
    /\ response' \in ModelReplies(MaxCalls - CallsIssued(messages))
    /\ pc' = "got_reply"
    /\ UNCHANGED <<buffer, messages, pending, inflight, executions, env, firstRun, system, tools, exitErr,
                   modelCalls, reads>>

\* a failed model call being tried again
ReplyError_M ==
    /\ pc = "got_reply"
    /\ response.tag = "Err"
    /\ response' = Idle
    /\ pc' = "make_call"
    /\ UNCHANGED <<buffer, messages, pending, inflight, executions, env, firstRun, system, tools, exitErr,
                   modelCalls, reads>>

\* lines 303-304 with call_loop line 158 and main line 120: the error is
\* mapped to ApiRequestFailed and `?` carries it out of main
ReplyError ==
    /\ pc = "got_reply"
    /\ response.tag = "Err"
    /\ exitErr' = "ApiRequestFailed"
    /\ response' = Idle
    /\ pc' = "failed"
    /\ UNCHANGED <<buffer, messages, pending, inflight, executions, env, firstRun, system, tools, modelCalls, reads>>

\* lines 309-311
ReplyText ==
    /\ pc = "got_reply"
    /\ response.tag = "Text"
    /\ messages' = Append(messages, AssistantText(Trim(response.text)))
    /\ response' = Idle
    /\ pc' = "loop_check"
    /\ UNCHANGED <<buffer, pending, inflight, executions, env, firstRun, system, tools, exitErr, modelCalls, reads>>

\* lines 314-321: append the request and hand the calls to the stream
ReplyToolCalls ==
    /\ pc = "got_reply"
    /\ response.tag = "ToolCalls"
    /\ messages' = Append(messages, AssistantToolCalls(response.calls))
    /\ pending' = response.calls
    /\ inflight' = {}
    /\ executions' = <<>>
    /\ response' = Idle
    /\ pc' = "dispatch"
    /\ UNCHANGED <<buffer, env, firstRun, system, tools, exitErr, modelCalls, reads>>

\* lines 337-340
ReplyOther ==
    /\ pc = "got_reply"
    /\ response.tag = "Parts"
    /\ messages' = Append(messages, AssistantText(<<"Unsupported response type">>))
    /\ response' = Idle
    /\ pc' = "loop_check"
    /\ UNCHANGED <<buffer, pending, inflight, executions, env, firstRun, system, tools, exitErr, modelCalls, reads>>

\* an empty reply ending the session with an error
ReplyNone_M ==
    /\ pc = "got_reply"
    /\ response.tag = "None"
    /\ exitErr' = "ResponseParseError"
    /\ response' = Idle
    /\ pc' = "failed"
    /\ UNCHANGED <<buffer, messages, pending, inflight, executions, env, firstRun, system, tools,
                   modelCalls, reads>>

\* lines 343-346
ReplyNone ==
    /\ pc = "got_reply"
    /\ response.tag = "None"
    /\ messages' = Append(messages, AssistantText(<<"No response">>))
    /\ response' = Idle
    /\ pc' = "loop_check"
    /\ UNCHANGED <<buffer, pending, inflight, executions, env, firstRun, system, tools, exitErr, modelCalls, reads>>

-----------------------------------------------------------------------------
(* make_call: the dispatch round, buffer_unordered(3) driven by collect *)

BufferLimit == 3

\* a stream that starts every call at once
CanStart_M == pending # <<>>

\* an executor that runs the invocations one after another
CanStart_Seq == pending # <<>> /\ inflight = {}

\* BufferUnordered::poll_next takes the next future off the stream while it
\* holds fewer than the limit
CanStart == pending # <<>> /\ Cardinality(inflight) < BufferLimit

\* position, in the reply, of the call at the head of `pending`
NextIndex == Len(Last(messages).calls) - Len(pending) + 1

StartNext ==
    /\ pc = "dispatch"
    /\ CanStart
    /\ inflight' = inflight \cup {[idx |-> NextIndex, call |-> Head(pending), phase |-> "ready"]}
    /\ pending' = Tail(pending)
    /\ UNCHANGED <<pc, buffer, messages, response, executions, env, firstRun, system, tools, exitErr, modelCalls, reads>>

\* a response filed under its place in the completion order
Execution_M(t, provider, result) ==
    [idx |-> t.idx, call |-> t.call, provider |-> provider,
     response |-> ToolResponse(ToString(Len(executions) + 1),
                               ToolResponseOf(t.call, result).content)]

\* what is kept of a completed execution: the call, how its provider
\* exchange went ("none" when no provider was called) and the response
Execution(t, provider, result) ==
    [idx |-> t.idx, call |-> t.call, provider |-> provider,
     response |-> ToolResponseOf(t.call, result)]

\* First poll of a make_tool_call future: it runs up to the provider call.
\* The stream is refilled before any held future is polled.
Poll ==
    /\ pc = "dispatch"
    /\ ~CanStart
    /\ \E t \in inflight :
        /\ t.phase = "ready"
        /\ LET r == BeforeProvider(t.call, env) IN
           IF r.ok
           THEN /\ inflight' = (inflight \ {t}) \cup {[t EXCEPT !.phase = "waiting"]}
                /\ UNCHANGED executions
           ELSE /\ inflight' = inflight \ {t}
                /\ executions' = Append(executions, Execution(t, "none", r))
    /\ UNCHANGED <<pc, buffer, messages, response, pending, env, firstRun, system, tools, exitErr, modelCalls, reads>>

\* The provider's HTTP exchange ends and the future runs to its end.
ProviderAnswers ==
    /\ pc = "dispatch"
    /\ ~CanStart
    /\ \E t \in inflight, st \in ProviderStatuses :
        /\ t.phase = "waiting"
        /\ inflight' = inflight \ {t}
        /\ executions' = Append(executions, Execution(t, st, AfterProvider(t.call, st)))
    /\ UNCHANGED <<pc, buffer, messages, response, pending, env, firstRun, system, tools, exitErr, modelCalls, reads>>

\* a gather that returns with the first result
AllCollected_M == executions # <<>>

\* collect() is done when the stream and the buffer are both empty
AllCollected == pending = <<>> /\ inflight = {}

\* the Vec<ToolResponse> collected so far
Results == [i \in 1..Len(executions) |-> executions[i].response]

\* a fold that puts the responses in the place of the tool request
Fold_M(ms, rs) == SubSeq(ms, 1, Len(ms) - 1) \o [i \in 1..Len(rs) |-> ToolMessage(rs[i])]

\* lines 331-333: fold the responses into the conversation
Fold(ms, rs) == ms \o [i \in 1..Len(rs) |-> ToolMessage(rs[i])]

Collect ==
    /\ pc = "dispatch"
    /\ AllCollected
    /\ messages' = Fold(messages, Results)
    /\ pc' = "loop_check"
    /\ UNCHANGED <<buffer, response, pending, inflight, executions, env, firstRun, system, tools, exitErr,
                   modelCalls, reads>>

-----------------------------------------------------------------------------
(* call_loop *)

\* a turn that stops when the last tool response reports an error
LoopAgain_M(ms) ==
    /\ ms # <<>>
    /\ Last(ms).kind = "ToolResponses"
    /\ "error" \notin DOMAIN Last(ms).responses[1].content

\* a turn that gives up after its first dispatch round
LoopAgain_Capped(ms) ==
    /\ ms # <<>>
    /\ Last(ms).kind = "ToolResponses"
    /\ Cardinality({i \in 1..Len(ms) : ms[i].kind = "ToolCalls"}) < 2

\* lines 162-169: loop again only when the last message is a tool response
LoopAgain(ms) == ms # <<>> /\ Last(ms).kind = "ToolResponses"

CallLoopCheck ==
    /\ pc = "loop_check"
    /\ pc' = IF LoopAgain(messages) THEN "make_call" ELSE "check_last"
    /\ UNCHANGED <<buffer, messages, response, pending, inflight, executions, env, firstRun, system, tools,
                   exitErr, modelCalls, reads>>

-----------------------------------------------------------------------------

Next ==
    \/ ReadFirst
    \/ ReadNext
    \/ ReadFail
    \/ WhileTest
    \/ SkipBlank
    \/ SubmitUser
    \/ CheckLast
    \/ SendRequest
    \/ ReceiveReply
    \/ ReplyError
    \/ ReplyText
    \/ ReplyToolCalls
    \/ ReplyOther
    \/ ReplyNone
    \/ StartNext
    \/ Poll
    \/ ProviderAnswers
    \/ Collect
    \/ CallLoopCheck

Spec == Init /\ [][Next]_vars

-----------------------------------------------------------------------------
(* The tool executor on its own: one dispatch round holding a single tool  *)
(* call drawn from all names and argument shapes.                          *)

NonObject(t) == [t |-> t, fields |-> [k \in {} |-> Absent]]

ParamValues(k) ==
    CASE k = "city" -> {Str("Seattle"), Num("5")}
      [] k = "country" -> {Str("US"), Num("5")}
      [] k = "unit" -> {Str("C"), Str("F"), Str("K"), Num("5")}

AllParamValues == UNION {ParamValues(k) : k \in ParamNames}

ArgumentValues ==
    {NonObject("null"), NonObject("string")}
    \cup {Obj(f) : f \in {g \in UNION {[D -> AllParamValues] : D \in SUBSET ParamNames} :
                              \A k \in DOMAIN g : g[k] \in ParamValues(k)}}

ToolNames == {WeatherTool, TimeTool, "get_news"}

InitTool ==
    /\ pc = "dispatch"
    /\ buffer = <<"E", "x", "i", "t", "\n">>
    /\ \E name \in ToolNames, args \in ArgumentValues :
        /\ pending = <<ToolCall("1", name, args)>>
        /\ messages = <<UserMessage(UserRequest(buffer)), AssistantToolCalls(pending)>>
    /\ response = Idle
    /\ inflight = {}
    /\ executions = <<>>
    /\ env \in SUBSET {WeatherKey, GeoKey}
    /\ exitErr = "none"
    /\ modelCalls = 1
    /\ reads = 1
    /\ firstRun = NoRun
    /\ system = SystemPrompt
    /\ tools = ToolDeclarations

NextTool ==
    \/ StartNext
    \/ Poll
    \/ ProviderAnswers

SpecTool == InitTool /\ [][NextTool]_vars

-----------------------------------------------------------------------------
(* One dispatch round run twice on the same reply, the providers answering *)
(* each call the second time as they did the first time.                   *)

MaxReplayCalls == 3   \* tool calls in the replayed reply

InitReplay ==
    /\ pc = "dispatch"
    /\ buffer = <<"E", "x", "i", "t", "\n">>
    /\ \E n \in 1..MaxReplayCalls :
        /\ pending = [i \in 1..n |-> ReplyCall(i)]
        /\ messages = <<UserMessage(UserRequest(buffer)), AssistantToolCalls(pending)>>
    /\ response = Idle
    /\ inflight = {}
    /\ executions = <<>>
    /\ env \in SUBSET {WeatherKey, GeoKey}
    /\ exitErr = "none"
    /\ modelCalls = 1
    /\ reads = 1
    /\ firstRun = NoRun
    /\ system = SystemPrompt
    /\ tools = ToolDeclarations

\* first run: the providers answer as they will
FirstAnswers ==
    /\ firstRun = NoRun
    /\ system = SystemPrompt
    /\ tools = ToolDeclarations
    /\ ProviderAnswers

\* the status the provider answered the idx-th call with in the first run
RecordedStatus(idx) ==
    LET i == CHOOSE k \in 1..Len(firstRun.executions) : firstRun.executions[k].idx = idx
    IN firstRun.executions[i].provider

\* second run: the providers answer each call as in the first run
SameAnswers ==
    /\ firstRun # NoRun
    /\ ProviderAnswers
    /\ Last(executions').provider = RecordedStatus(Last(executions').idx)

\* keep what the first run left and run the same reply again
Replay ==
    /\ pc = "loop_check"
    /\ firstRun = NoRun
    /\ system = SystemPrompt
    /\ tools = ToolDeclarations
    /\ firstRun' = [messages |-> messages, executions |-> executions]
    /\ messages' = SubSeq(messages, 1, Len(messages) - Len(executions))
    /\ pending' = Last(messages').calls
    /\ inflight' = {}
    /\ executions' = <<>>
    /\ pc' = "dispatch"
    /\ UNCHANGED <<buffer, response, env, exitErr, modelCalls, reads, system, tools>>

NextReplay ==
    \/ StartNext
    \/ Poll
    \/ FirstAnswers
    \/ Collect
    \/ Replay
    \/ SameAnswers

SpecReplay == InitReplay /\ [][NextReplay]_vars

-----------------------------------------------------------------------------
(* One turn on its own, from the entry of call_loop to its return, every   *)
(* model call and every provider call being answered in the end.           *)

MaxTurnCalls == 2   \* tool calls the model issues in the turn

InitTurn ==
    /\ pc = "make_call"
    /\ buffer = <<"E", "x", "i", "t", "\n">>
    /\ messages = <<UserMessage(UserRequest(buffer))>>
    /\ response = Idle
    /\ pending = <<>>
    /\ inflight = {}
    /\ executions = <<>>
    /\ env \in SUBSET {WeatherKey, GeoKey}
    /\ exitErr = "none"
    /\ modelCalls = 0
    /\ reads = 1
    /\ firstRun = NoRun
    /\ system = SystemPrompt
    /\ tools = ToolDeclarations

\* line 303: exec_chat returns, within the turn's budget of tool calls
TurnReceiveReply ==
    /\ pc = "awaiting"
    /\ response' \in ModelReplies(MaxTurnCalls - CallsIssued(messages))
    /\ pc' = "got_reply"
    /\ UNCHANGED <<buffer, messages, pending, inflight, executions, env, firstRun, system, tools,
                   exitErr, modelCalls, reads>>

NextTurn ==
    \/ SendRequest
    \/ TurnReceiveReply
    \/ ReplyError
    \/ ReplyText
    \/ ReplyToolCalls
    \/ ReplyOther
    \/ ReplyNone
    \/ StartNext
    \/ Poll
    \/ ProviderAnswers
    \/ Collect
    \/ CallLoopCheck

FairTurn == InitTurn /\ [][NextTurn]_vars /\ WF_vars(NextTurn)

-----------------------------------------------------------------------------
(* Properties *)

IsFailure(content) == "error" \in DOMAIN content

Contains(words, w) == \E i \in 1..Len(words) : words[i] = w

ProviderFailures == {"transport", "status", "malformed"}

\* number of tool messages that directly follow message i
FollowLen(ms, i) ==
    CHOOSE n \in 0..(Len(ms) - i) :
        /\ \A k \in 1..n : ms[i + k].kind = "ToolResponses"
        /\ (i + n = Len(ms) \/ ms[i + n + 1].kind # "ToolResponses")

\* the tool messages that directly follow request i answer exactly its calls:
\* every call id occurs as often among them as in the request
AnsweredExactly(ms, i) ==
    LET calls == ms[i].calls
        n == FollowLen(ms, i)
        ids == {calls[k].call_id : k \in 1..Len(calls)}
               \cup {ms[i + k].responses[1].call_id : k \in 1..n}
    IN /\ n = Len(calls)
       /\ \A k \in 1..n : Len(ms[i + k].responses) = 1
       /\ \A id \in ids :
            Cardinality({k \in 1..Len(calls) : calls[k].call_id = id})
            = Cardinality({k \in 1..n : ms[i + k].responses[1].call_id = id})

\* a dispatch round is open: its request is the last message and its
\* results are still being gathered
RoundOpen == pc = "dispatch"

\* C1: whenever no dispatch round is open, every tool request of the
\* conversation is directly followed by tool results whose call ids are
\* exactly the requested ones, one result per call, in whatever order the
\* executions completed and whether they succeeded or failed; while a round
\* is open this holds of every earlier request.
C1_ResultsMatchRequest ==
    \A i \in 1..Len(messages) :
        (messages[i].kind = "ToolCalls" /\ ~(RoundOpen /\ i = Len(messages)))
        => AnsweredExactly(messages, i)

\* C1 witness: a round of at least three calls has been folded in, its
\* results out of request order and holding a failure and a success.
C1_Witness ==
    /\ pc = "loop_check"
    /\ Len(executions) >= 3
    /\ Last(messages).kind = "ToolResponses"
    /\ executions[1].idx # 1
    /\ \E i, j \in 1..Len(executions) :
        /\ IsFailure(executions[i].response.content)
        /\ ~IsFailure(executions[j].response.content)

\* C2: a model call is issued only when no tool call of the latest request
\* is waiting or running and every request of the conversation it sends has
\* as many results behind it as it has calls.
C2_NoPartialBatch ==
    [][modelCalls' # modelCalls =>
        /\ pending = <<>>
        /\ inflight = {}
        /\ \A i \in 1..Len(messages) :
            messages[i].kind = "ToolCalls"
            => FollowLen(messages, i) = Len(messages[i].calls)]_vars

\* C2 witness: a model call is out after a round of several tool calls.
C2_Witness ==
    /\ pc = "awaiting"
    /\ Len(executions) >= 2
    /\ Last(messages).kind = "ToolResponses"

\* C3: during a dispatch round at most 3 executions, and so at most 3
\* provider calls, are in flight; every call of the request is waiting,
\* in flight or completed.
C3_AtMostThreeInFlight ==
    pc = "dispatch" =>
        /\ Cardinality(inflight) <= 3
        /\ Cardinality({t \in inflight : t.phase = "waiting"}) <= 3
        /\ Len(pending) + Cardinality(inflight) + Len(executions)
           = Len(Last(messages).calls)

\* C3 witness: three provider calls are open while a fourth call waits.
C3_Witness ==
    /\ pc = "dispatch"
    /\ pending # <<>>
    /\ Cardinality({t \in inflight : t.phase = "waiting"}) = 3

\* the failure reporting that the named tool is not supported
UnsupportedFailure(name) ==
    [error |-> <<"Tool", "call", "function", "not", "implemented:", name>>]

\* the failure reporting arguments that are not a JSON object
InvalidArgumentsFailure ==
    [error |-> <<"Failed", "to", "parse", "API", "response:",
                 "Invalid", "tool", "call", "arguments", "format">>]

\* no provider is contacted for a call of an unregistered tool
NoProviderForUnregistered ==
    /\ \A t \in inflight :
        t.call.fn_name \notin RegisteredTools => t.phase # "waiting"
    /\ \A i \in 1..Len(executions) :
        executions[i].call.fn_name \notin RegisteredTools
        => executions[i].provider = "none"

\* C4 as stated: a call of an unregistered tool yields the unsupported-tool
\* failure naming the tool, whatever its arguments are, and no provider is
\* contacted.
C4_UnsupportedForAnyArguments ==
    /\ NoProviderForUnregistered
    /\ \A i \in 1..Len(executions) :
        LET e == executions[i] IN
        e.call.fn_name \notin RegisteredTools
        => e.response = ToolResponse(e.call.call_id, UnsupportedFailure(e.call.fn_name))

\* C4 amended: a call of an unregistered tool whose arguments are a JSON
\* object yields the unsupported-tool failure naming the tool; when the
\* arguments are not a JSON object it yields the invalid-arguments failure,
\* the argument shape being looked at before the name; in both cases no
\* provider is contacted.
C4_UnsupportedForObjectArguments ==
    /\ NoProviderForUnregistered
    /\ \A i \in 1..Len(executions) :
        LET e == executions[i] IN
        e.call.fn_name \notin RegisteredTools
        => e.response = ToolResponse(e.call.call_id,
                                     IF e.call.fn_arguments.t = "object"
                                     THEN UnsupportedFailure(e.call.fn_name)
                                     ELSE InvalidArgumentsFailure)

\* C4 witness: a call of an unregistered tool with object arguments has
\* been executed.
C4_Witness ==
    \E i \in 1..Len(executions) :
        /\ executions[i].call.fn_name \notin RegisteredTools
        /\ executions[i].call.fn_arguments.t = "object"
        /\ IsFailure(executions[i].response.content)

\* the parameters the schema of a tool marks required (main lines 60, 79)
Required(name) ==
    IF name = WeatherTool THEN {"city", "country", "unit"} ELSE {"city", "country"}

\* the required parameters a call lacks or carries with a non-string value
Lacking(tc) ==
    {p \in Required(tc.fn_name) :
        \/ p \notin DOMAIN tc.fn_arguments.fields
        \/ tc.fn_arguments.fields[p].t # "string"}

\* C5: a call of a registered tool that lacks a required parameter (or
\* carries it with a non-string value) never reaches the provider and
\* yields a failure; when its arguments are a JSON object the message
\* holds the schema name of a parameter it lacks.
C5_MissingParameterNamed ==
    /\ \A t \in inflight :
        (t.call.fn_name \in RegisteredTools /\ Lacking(t.call) # {})
        => t.phase # "waiting"
    /\ \A i \in 1..Len(executions) :
        LET e == executions[i] IN
        (e.call.fn_name \in RegisteredTools /\ Lacking(e.call) # {})
        => /\ e.provider = "none"
           /\ e.response.call_id = e.call.call_id
           /\ IsFailure(e.response.content)
           /\ e.call.fn_arguments.t = "object"
              => \E p \in Lacking(e.call) : Contains(e.response.content.error, p)

\* C5 witness: a get_weather call with city and country but no unit has
\* been executed.
C5_Witness ==
    \E i \in 1..Len(executions) :
        /\ executions[i].call.fn_name = WeatherTool
        /\ executions[i].call.fn_arguments.t = "object"
        /\ Lacking(executions[i].call) = {"unit"}
        /\ IsFailure(executions[i].response.content)

\* a provider call of the latest round failed
ProviderFailed ==
    \E i \in 1..Len(executions) : executions[i].provider \in ProviderFailures

\* the conversation ends with the results of the latest round
RoundJustFolded ==
    /\ executions # <<>>
    /\ Len(messages) >= Len(executions)
    /\ \A i \in 1..Len(executions) :
        messages[Len(messages) - Len(executions) + i] = ToolMessage(executions[i].response)

\* C6: an execution whose provider call fails completes with a failure
\* under the call's id; the round is folded into the conversation with that
\* result in it; and the turn then goes to the next model call, the session
\* neither exiting nor failing.
C6_ProviderFailureContinues ==
    [][/\ \A i \in 1..Len(executions') :
            executions'[i].provider \in ProviderFailures
            => /\ executions'[i].response.call_id = executions'[i].call.call_id
               /\ IsFailure(executions'[i].response.content)
       /\ (pc = "dispatch" /\ pc' # "dispatch" /\ ProviderFailed)
          => (pc' = "loop_check" /\ RoundJustFolded' /\ executions' = executions)
       /\ (pc = "loop_check" /\ RoundJustFolded /\ ProviderFailed)
          => pc' = "make_call"]_vars

\* C6 witness: the next model call is out after a round in which a
\* provider call failed.
C6_Witness ==
    /\ pc = "awaiting"
    /\ RoundJustFolded
    /\ ProviderFailed

\* C7: when a model call fails the session ends with the error: no retry,
\* no message, no tool execution, no read; and nothing happens afterwards.
C7_ModelErrorEndsSession ==
    [][/\ (pc = "got_reply" /\ response.tag = "Err")
          => /\ pc' = "failed"
             /\ exitErr' = "ApiRequestFailed"
             /\ UNCHANGED <<messages, modelCalls, reads, pending, inflight, executions>>
       /\ pc # "failed"]_vars

\* C7 witness: the session has ended with the model-call error.
C7_Witness ==
    /\ pc = "failed"
    /\ exitErr = "ApiRequestFailed"
    /\ modelCalls >= 1

\* C8: when the line read equals `exit` after trimming, the session ends
\* successfully with no message appended and no model call made, and
\* nothing happens afterwards.
C8_UserExit ==
    [][/\ (pc = "while_test" /\ Trim(buffer) = ExitToken)
          => /\ pc' = "exited"
             /\ exitErr' = "none"
             /\ UNCHANGED <<messages, modelCalls, reads>>
       /\ pc # "exited"]_vars

\* C8 witness: `exit`, surrounded by white space, was the very first line
\* and the session has ended before any model call.
C8_Witness ==
    /\ pc = "exited"
    /\ reads = 1
    /\ buffer # ExitToken
    /\ Trim(buffer) = ExitToken
    /\ modelCalls = 0
    /\ messages = <<>>

\* C9: while the line in the buffer is empty after trimming, no step
\* appends a message or makes a model call: the transcript stays as it is.
C9_BlankInputIgnored ==
    [][(pc \in {"while_test", "body"} /\ Trim(buffer) = <<>>)
          => /\ pc' \in {"while_test", "body"}
             /\ UNCHANGED <<messages, modelCalls, exitErr>>]_vars

\* C9 witness: a line of white space is being processed after an earlier turn.
C9_Witness ==
    /\ pc = "body"
    /\ buffer # <<>>
    /\ Trim(buffer) = <<>>
    /\ messages # <<>>

\* C10: when the turn ends with a text message, the session ends without
\* another read or model call if the text is `exit`, and goes to prompt for
\* the next line otherwise.
C10_ModelExit ==
    [][(pc = "check_last" /\ Last(messages).kind = "Text")
          => IF Last(messages).text = ExitToken
             THEN /\ pc' = "exited"
                  /\ exitErr' = "none"
                  /\ UNCHANGED <<messages, modelCalls, reads>>
             ELSE /\ pc' = "prompt"
                  /\ UNCHANGED <<messages, modelCalls, reads>>]_vars

\* C10 witness: the session has ended on the model's `exit`.
C10_Witness ==
    /\ pc = "exited"
    /\ messages # <<>>
    /\ Last(messages) = AssistantText(ExitToken)

\* both runs of the replayed round have been folded into their transcripts
BothRunsDone == pc = "loop_check" /\ firstRun # NoRun

\* number of times message m occurs in the transcript ms
Occurrences(ms, m) == Cardinality({i \in 1..Len(ms) : ms[i] = m})

\* C11 as stated: with the same reply and the same provider answers, the
\* second run leaves the same messages in the same order as the first,
\* whatever the order the executions complete in.
C11_SameTranscript ==
    BothRunsDone => messages = firstRun.messages

\* C11 amended: the two transcripts are equal up to and including the tool
\* request, and the tool results after it are the same messages, each as
\* often in one run as in the other, in an order that may differ.
C11_SameUpToResultOrder ==
    BothRunsDone =>
        LET a == firstRun.messages
            b == messages
            n == Len(a) - Len(firstRun.executions)
        IN /\ Len(a) = Len(b)
           /\ SubSeq(a, 1, n) = SubSeq(b, 1, n)
           /\ a[n].kind = "ToolCalls"
           /\ \A i \in (n + 1)..Len(a) :
                /\ a[i].kind = "ToolResponses"
                /\ Occurrences(a, a[i]) = Occurrences(b, a[i])

\* C11 witness: both runs are done and their results came in different orders.
C11_Witness ==
    /\ BothRunsDone
    /\ Len(executions) >= 2
    /\ messages # firstRun.messages

\* the latest assistant message of the transcript: the latest model reply
LatestReply(ms) ==
    ms[CHOOSE i \in 1..Len(ms) :
           /\ ms[i].role = "assistant"
           /\ \A j \in (i + 1)..Len(ms) : ms[j].role # "assistant"]

\* the reply asks for at least one tool invocation
RequestsTools(m) == m.kind = "ToolCalls" /\ m.calls # <<>>

\* C12: the turn returns only from the check that follows a model reply,
\* and that check returns exactly when the latest reply asks for no tool
\* invocation and otherwise goes to the next model call, however many
\* rounds there have been; every dispatch round of a request that asks for
\* tools is followed by a return to the model call, and every reply that is
\* not a tool request by the end of the turn, model calls and provider
\* calls being answered in the end.
C12_TurnEndsWhenNoToolsRequested ==
    /\ [][/\ pc = "loop_check"
              => IF RequestsTools(LatestReply(messages))
                 THEN pc' = "make_call"
                 ELSE pc' = "check_last"
          /\ (pc' = "check_last" /\ pc # "check_last") => pc = "loop_check"]_vars
    /\ (pc = "dispatch" /\ RequestsTools(Last(messages))) ~> (pc = "make_call")
    /\ (pc = "got_reply" /\ response.tag \in {"Text", "Parts", "None"})
          ~> (pc = "check_last")

\* C12 witness: the turn has returned on a text reply after a dispatch round.
C12_Witness ==
    /\ pc = "check_last"
    /\ modelCalls >= 2
    /\ executions # <<>>
    /\ Last(messages).kind = "Text"

\* the message is an assistant text holding one of the fallback texts
IsFallback(m) ==
    /\ m.role = "assistant"
    /\ m.kind = "Text"
    /\ m.text \in {<<"No response">>, <<"Unsupported response type">>}

\* C13: on an empty reply or one of an unrecognized shape exactly one
\* fallback assistant text is appended, with no tool executed and no model
\* call made; the turn then returns; and the session goes on to prompt for
\* the next line without an error.
C13_FallbackReply ==
    [][/\ (pc = "got_reply" /\ response.tag \in {"None", "Parts"})
          => /\ Len(messages') = Len(messages) + 1
             /\ SubSeq(messages', 1, Len(messages)) = messages
             /\ IsFallback(Last(messages'))
             /\ pc' = "loop_check"
             /\ UNCHANGED <<modelCalls, pending, inflight, executions, exitErr>>
       /\ (pc = "loop_check" /\ IsFallback(Last(messages)))
          => /\ pc' = "check_last"
             /\ UNCHANGED <<messages, modelCalls, pending, inflight, executions, exitErr>>
       /\ (pc = "check_last" /\ IsFallback(Last(messages)))
          => /\ pc' = "prompt"
             /\ UNCHANGED <<messages, modelCalls, pending, inflight, executions, exitErr>>]_vars

\* C13 witness: the session is at the next prompt after a fallback text.
C13_Witness ==
    /\ pc = "prompt"
    /\ messages # <<>>
    /\ IsFallback(Last(messages))
    /\ exitErr = "none"

\* the environment variable holding the credential of a registered tool
KeyOf(name) == IF name = WeatherTool THEN WeatherKey ELSE GeoKey

\* a call of a registered tool with object arguments and every required parameter
ValidCall(tc) ==
    /\ tc.fn_name \in RegisteredTools
    /\ tc.fn_arguments.t = "object"
    /\ Lacking(tc) = {}

\* an otherwise valid call whose tool's credential is not set
CredentialAbsent(tc) == ValidCall(tc) /\ KeyOf(tc.fn_name) \notin env

\* an execution of the latest round failed for want of its credential
CredentialFailed ==
    \E i \in 1..Len(executions) : CredentialAbsent(executions[i].call)

\* C14: an otherwise valid call whose credential is absent never reaches
\* the provider and completes with a failure under its own call id that
\* names the variable; valid calls of the round whose credential is set
\* still reach their provider; the round is folded in and the turn goes on
\* to the next model call, the session neither exiting nor failing.
C14_MissingCredentialIsLocal ==
    /\ [](/\ \A t \in inflight : CredentialAbsent(t.call) => t.phase # "waiting"
          /\ \A i \in 1..Len(executions) :
                LET e == executions[i] IN
                /\ CredentialAbsent(e.call)
                   => /\ e.provider = "none"
                      /\ e.response.call_id = e.call.call_id
                      /\ IsFailure(e.response.content)
                      /\ Contains(e.response.content.error, KeyOf(e.call.fn_name))
                /\ (ValidCall(e.call) /\ ~CredentialAbsent(e.call))
                   => e.provider \in ProviderStatuses)
    /\ [][/\ (pc = "dispatch" /\ CredentialFailed)
              => /\ pc' \in {"dispatch", "loop_check"}
                 /\ exitErr' = "none"
                 /\ pc' = "loop_check" => RoundJustFolded'
          /\ (pc = "loop_check" /\ RoundJustFolded /\ CredentialFailed)
              => pc' = "make_call"]_vars

\* C14 witness: the next model call is out after a round in which one call
\* failed for want of its credential and another got its provider's answer.
C14_Witness ==
    /\ pc = "awaiting"
    /\ RoundJustFolded
    /\ CredentialFailed
    /\ \E i \in 1..Len(executions) : executions[i].provider = "ok"

\* the unit a get_weather call asks for, "" when it carries no string unit
UnitOf(tc) ==
    IF "unit" \in DOMAIN tc.fn_arguments.fields /\ tc.fn_arguments.fields["unit"].t = "string"
    THEN tc.fn_arguments.fields["unit"].v
    ELSE ""

\* C15: a get_weather execution whose provider answered successfully
\* carries, under the call's id, temperature equal to the provider's temp_f
\* when the unit asked for is "F" and to its temp_c when it is "C", with
\* the provider's condition text and humidity as they came.
C15_WeatherPayload ==
    \A i \in 1..Len(executions) :
        LET e == executions[i] IN
        (e.call.fn_name = WeatherTool /\ e.provider = "ok" /\ UnitOf(e.call) \in {"C", "F"})
        => /\ e.response.call_id = e.call.call_id
           /\ e.response.content =
                [temperature |-> IF UnitOf(e.call) = "F" THEN WeatherBody.temp_f
                                                       ELSE WeatherBody.temp_c,
                 condition |-> WeatherBody.condition,
                 humidity |-> WeatherBody.humidity]

\* C15 witness: a get_weather call asking for "F" has completed with the
\* provider's Fahrenheit temperature.
C15_Witness ==
    \E i \in 1..Len(executions) :
        /\ executions[i].call.fn_name = WeatherTool
        /\ executions[i].provider = "ok"
        /\ UnitOf(executions[i].call) = "F"
        /\ executions[i].response.content.temperature = 68

\* C16: after a blank line (empty after trimming, only `>` and white space,
\* or end of input) the session goes on to prompt for and read a fresh
\* line; it does not go back to test the line still in the buffer.
C16_BlankLineLeadsToRead ==
    [][(pc = "body" /\ UserRequest(buffer) = <<>>) => pc' = "prompt"]_vars

\* C17: whenever the turn has returned to the session loop, the last
\* message of the conversation is an assistant text.
C17_TurnEndsOnAssistantText ==
    pc = "check_last" =>
        /\ messages # <<>>
        /\ Last(messages).role = "assistant"
        /\ Last(messages).kind = "Text"

\* the `required` array of a tool's schema, in its order (main lines 60, 79)
SchemaOrder(name) ==
    IF name = WeatherTool THEN <<"city", "country", "unit">> ELSE <<"city", "country">>

\* the first parameter, in schema order, that the call lacks
FirstLacking(tc) ==
    LET order == SchemaOrder(tc.fn_name)
        i == CHOOSE k \in 1..Len(order) :
                 /\ order[k] \in Lacking(tc)
                 /\ \A j \in 1..(k - 1) : order[j] \notin Lacking(tc)
    IN order[i]

\* C18: a call of a registered tool with object arguments that lacks
\* required parameters yields a missing-parameter failure that names the
\* first lacking parameter in schema order and none of the others; it is
\* not the credential failure even when the credential is absent, and the
\* provider is not called.
C18_FirstMissingOnly ==
    \A i \in 1..Len(executions) :
        LET e == executions[i] IN
        (e.call.fn_name \in RegisteredTools /\ e.call.fn_arguments.t = "object"
         /\ Lacking(e.call) # {})
        => /\ e.provider = "none"
           /\ IsFailure(e.response.content)
           /\ SubSeq(e.response.content.error, 1, 2) = <<"Missing", "parameter:">>
           /\ Contains(e.response.content.error, FirstLacking(e.call))
           /\ \A p \in Lacking(e.call) \ {FirstLacking(e.call)} :
                ~Contains(e.response.content.error, p)
           /\ ~Contains(e.response.content.error, KeyOf(e.call.fn_name))

\* C18 witness: a get_weather call lacking country and unit, its credential
\* absent too, has been answered with the failure naming country.
C18_Witness ==
    \E i \in 1..Len(executions) :
        /\ executions[i].call.fn_name = WeatherTool
        /\ executions[i].call.fn_arguments.t = "object"
        /\ Lacking(executions[i].call) = {"country", "unit"}
        /\ WeatherKey \notin env
        /\ Contains(executions[i].response.content.error, "country")

\* a get_weather call whose unit is a string outside the schema's enum
UnitOutsideEnum(tc) ==
    /\ tc.fn_name = WeatherTool
    /\ tc.fn_arguments.t = "object"
    /\ UnitOf(tc) \notin {"", "C", "F"}

\* C19: a get_weather call whose unit is a string other than "C" and "F"
\* never reaches the provider and completes with a failure.
C19_UnitOutsideEnumRejected ==
    /\ \A t \in inflight : UnitOutsideEnum(t.call) => t.phase # "waiting"
    /\ \A i \in 1..Len(executions) :
        UnitOutsideEnum(executions[i].call)
        => /\ executions[i].provider = "none"
           /\ IsFailure(executions[i].response.content)

\* a step of the round's executor that leaves the execution t in flight
OthersProgress(t) == (StartNext \/ Poll \/ ProviderAnswers) /\ t \in inflight'

\* C20: while an execution waits on its provider, every other invocation of
\* the round that is not yet started or not yet complete can take its next
\* step without the waiting one returning (so the others are all started and
\* all complete), and the turn stays in the round, making no model call,
\* for as long as anything is in flight.
C20_HungExecutionBlocksOnlyTheTurn ==
    /\ inflight # {} => pc = "dispatch"
    /\ \A t \in inflight :
        (t.phase = "waiting" /\ (pending # <<>> \/ inflight # {t}))
        => ENABLED OthersProgress(t)
    /\ \A t \in inflight :
        t.phase = "waiting" => ~ENABLED (Collect \/ SendRequest)

\* a round of more than three invocations in which all but one, still
\* waiting on its provider, have completed
C20_Witness ==
    /\ pc = "dispatch"
    /\ Len(Last(messages).calls) > BufferLimit
    /\ pending = <<>>
    /\ \E t \in inflight : t.phase = "waiting" /\ inflight = {t}
    /\ Len(executions) = Len(Last(messages).calls) - 1

\* the sequence a is the beginning of the sequence b
IsPrefix(a, b) == Len(a) <= Len(b) /\ SubSeq(b, 1, Len(a)) = a

\* C21: every step of the session keeps the transcript it found as the
\* beginning of the transcript it leaves, and leaves the system prompt and
\* the tool declarations as they were given when the request was created.
C21_AppendOnly ==
    [][/\ IsPrefix(messages, messages')
       /\ system = SystemPrompt /\ system' = system
       /\ tools = ToolDeclarations /\ tools' = tools]_vars

\* a transcript that has taken a user message, a tool request, its tool
\* results and a final assistant text, under the original prompt and tools
C21_Witness ==
    /\ Len(messages) >= 4
    /\ messages[1].role = "user"
    /\ \E i \in 2..(Len(messages) - 2) :
        /\ RequestsTools(messages[i])
        /\ messages[i + 1].role = "tool"
    /\ Last(messages).role = "assistant"
    /\ Last(messages).kind = "Text"
    /\ system = SystemPrompt
    /\ tools = ToolDeclarations

====
